---- MODULE Spec2Model ----
(***************************************************************************)
(* Model of the Jira access layer of the field-service dashboard           *)
(* (src/utils/jira_api.py, class JiraAPI) and of the dashboard code that   *)
(* drives it (src/streamlit_app.py).                                       *)
(*                                                                         *)
(* Conventions for Python values:                                          *)
(*   - a str that the code takes apart or glues together (strip, rstrip,   *)
(*     split, f-strings) is a "text": a sequence of chunks, where the      *)
(*     chunks " ", "," and "/" stand for those characters;                 *)
(*   - an Optional value is None (the empty tuple) or Some(v) (a 1-tuple); *)
(*   - a dict is a record; a key that may be missing is an Optional field. *)
(***************************************************************************)
EXTENDS Integers, Sequences, FiniteSets, TLC

(* ------------------------------ bounds -------------------------------- *)

\* pages one search may request before the model stops following it
MaxPages == 3

(* --------------------------- Python values ---------------------------- *)

None == <<>>

Some(v) == <<v>>

\* bool(x) for an Optional text: None and "" are falsy
truthy(x) == x # None /\ x[1] # <<>>

RECURSIVE lstrip(_)
\* str.lstrip(): drop leading whitespace chunks
lstrip(t) == IF t # <<>> /\ Head(t) = " " THEN lstrip(Tail(t)) ELSE t

RECURSIVE rstripChunk(_, _)
\* str.rstrip(c): drop trailing chunks equal to c
rstripChunk(t, c) ==
    IF t # <<>> /\ t[Len(t)] = c THEN rstripChunk(SubSeq(t, 1, Len(t) - 1), c) ELSE t

\* str.strip()
strip(t) == rstripChunk(lstrip(t), " ")

RECURSIVE split(_, _)
\* str.split(sep): the pieces between the separators (always at least one piece)
split(t, sep) ==
    IF \A i \in 1..Len(t) : t[i] # sep
    THEN <<t>>
    ELSE LET i == CHOOSE j \in 1..Len(t) : t[j] = sep /\ \A k \in 1..(j - 1) : t[k] # sep
         IN  <<SubSeq(t, 1, i - 1)>> \o split(SubSeq(t, i + 1, Len(t)), sep)

RECURSIVE SelectNonEmptyStripped(_)
\* [f.strip() for f in pieces if f.strip()]
SelectNonEmptyStripped(pieces) ==
    IF pieces = <<>> THEN <<>>
    ELSE LET f == strip(Head(pieces))
         IN  (IF f # <<>> THEN <<f>> ELSE <<>>) \o SelectNonEmptyStripped(Tail(pieces))

(* ------------------------- construction inputs ------------------------ *)

SITE == <<"https://delfia.atlassian.net">>

EX_HOST == <<"https://api.atlassian.com/ex/jira", "/">>

\* arguments of JiraAPI(...) the model constructs the client from
Constructions ==
    { [email |-> <<"op@x">>, api_token |-> <<"tok">>, jira_url |-> SITE,
       use_ex_api |-> FALSE, cloud_id |-> None],
      [email |-> <<" ", "op@x", " ">>, api_token |-> <<"tok", " ">>, jira_url |-> SITE \o <<"/">>,
       use_ex_api |-> FALSE, cloud_id |-> Some(<<"cid">>)],
      [email |-> <<"op@x">>, api_token |-> <<"tok">>, jira_url |-> SITE,
       use_ex_api |-> TRUE, cloud_id |-> Some(<<"cid">>)],
      [email |-> <<"op@x">>, api_token |-> <<"tok">>, jira_url |-> SITE,
       use_ex_api |-> TRUE, cloud_id |-> None],
      [email |-> <<"op@x">>, api_token |-> <<"tok">>, jira_url |-> SITE,
       use_ex_api |-> TRUE, cloud_id |-> Some(<<>>)] }

\* JiraAPI.__init__: the attributes of the new client (the recorder is `recorder`)
JiraAPI(a) ==
    [email |-> strip(a.email),
     api_token |-> strip(a.api_token),
     jira_url |-> rstripChunk(a.jira_url, "/"),
     use_ex_api |-> a.use_ex_api,
     cloud_id |-> a.cloud_id]

\* the six last_* attributes as __init__ leaves them
NoDebug ==
    [last_url |-> None, last_params |-> None, last_status |-> None,
     last_error |-> None, last_count |-> None, last_method |-> None]

(* ------------------------------ JSON values --------------------------- *)

JNull == [t |-> "null"]

JStr(x) == [t |-> "str", v |-> x]

JList(s) == [t |-> "list", v |-> s]

\* dict.get(key, default) on a member that is None when the key is missing
Get(member, default) == IF member = None THEN default ELSE member[1]

\* the Python value of a JSON null-or-string: None or the str
PyOpt(j) == IF j.t = "null" THEN None ELSE Some(j.v)

(* ------------------------------ the state ----------------------------- *)

VARIABLES
    client,     \* the JiraAPI object's configuration attributes
    recorder,   \* its last_* attributes
    httpCalls,  \* requests.request calls made since construction
    pc,         \* "idle", "search" (inside the while loop), "returned", "raised"
    call,       \* the operation called last, with its arguments
    loc,        \* locals of buscar_chamados_enhanced while it runs
    reqLog,     \* requests the current operation has sent, in order
    respLog,    \* the replies to them, in order
    ret,        \* outcome of the operation called last
    remote,     \* the remote system: the status of every issue
    history,    \* st.session_state.history
    ui,         \* what the dashboard handler run last did and showed
    session     \* st.session_state: authentication_status, and whether it holds jira_client

\* the client and the operation called on it directly
gwVars == <<client, recorder, httpCalls, pc, call, loc, reqLog, respLog, ret>>

\* the dashboard session and the remote system behind it
dashVars == <<remote, history, ui, session>>

vars == <<client, recorder, httpCalls, pc, call, loc, reqLog, respLog, ret, remote, history, ui,
          session>>

(* ------------------------- base URL and headers ----------------------- *)

\* mutant of BaseRaises: only a cloud_id of None is refused, "" passes
BaseRaisesNoneOnly(c) == c.use_ex_api /\ c.cloud_id = None

\* _base raises ValueError in EX mode when cloud_id is None or ""
BaseRaises(c) == c.use_ex_api /\ ~truthy(c.cloud_id)

\* _base: the prefix of every request URL (defined when it does not raise)
_base(c) ==
    IF c.use_ex_api
    THEN EX_HOST \o c.cloud_id[1] \o <<"/rest/api/3">>
    ELSE c.jira_url \o <<"/rest/api/3">>

hdr_json == [Accept |-> "application/json", ContentType |-> Some("application/json"),
             Authorization |-> None]

hdr_accept == [Accept |-> "application/json", ContentType |-> None, Authorization |-> None]

\* base64.b64encode(...).decode("ascii"): an encoding, kept apart from its argument
b64encode(t) == [b64 |-> t]

\* _auth_headers
_auth_headers(c, json_content) ==
    IF ~c.use_ex_api
    THEN (IF json_content THEN hdr_json ELSE hdr_accept)
    ELSE [Accept |-> "application/json",
          ContentType |-> IF json_content THEN Some("application/json") ELSE None,
          Authorization |-> Some(<<"Basic ", b64encode(c.email \o <<":">> \o c.api_token)>>)]

\* json.dumps: the serialised body, kept apart from the dict
dumps(body) == [dumps |-> body]

\* mutant of _req: the client-managed auth and the plain headers in both modes
_reqClientAuth(c, method, url, json_body, params, json_content) ==
    [method |-> method, url |-> url,
     headers |-> IF json_content THEN hdr_json ELSE hdr_accept,
     auth |-> Some([username |-> c.email, password |-> c.api_token]),
     data |-> None,
     json |-> json_body, params |-> params]

\* _req: the arguments of the requests.request call it makes
_req(c, method, url, json_body, params, json_content) ==
    IF c.use_ex_api
    THEN [method |-> method, url |-> url, headers |-> _auth_headers(c, json_content),
          auth |-> None,
          data |-> IF json_body # None THEN Some(dumps(json_body[1])) ELSE None,
          json |-> None, params |-> params]
    ELSE [method |-> method, url |-> url,
          headers |-> IF json_content THEN hdr_json ELSE hdr_accept,
          auth |-> Some([username |-> c.email, password |-> c.api_token]),
          data |-> None,
          json |-> json_body, params |-> params]

\* mutant of _set_debug: the count is not stored
_set_debugNoCount(url, params, status, error, count, method) ==
    [last_url |-> Some(url), last_params |-> params, last_status |-> Some(status),
     last_error |-> error, last_count |-> Some(0), last_method |-> Some(method)]

\* _set_debug
_set_debug(url, params, status, error, count, method) ==
    [last_url |-> Some(url), last_params |-> params, last_status |-> Some(status),
     last_error |-> error, last_count |-> Some(count), last_method |-> Some(method)]

(* ------------------------------ replies ------------------------------- *)

\* requests.request raised a RequestException (timeout, DNS, refused)
TransportFailure == [kind |-> "exc", msg |-> "ConnectionError"]

\* a response: its status code, its raw text, and its parsed JSON (None: not JSON)
Http(status, text, json) == [kind |-> "http", status_code |-> status, text |-> text, json |-> json]

ErrJson(v) == [json |-> v]

ErrText(s) == [text |-> s]

\* _safe_json: the parsed body, or the raw text when the body is not JSON
_safe_json(r) == IF r.json # None THEN ErrJson(r.json[1]) ELSE ErrText(r.text)

(* ---------------------- buscar_chamados_enhanced --------------------- *)

\* the `fields` argument: a comma-separated str, a list of names, or None
FStr(t) == [ty |-> "str", v |-> t]

FList(l) == [ty |-> "list", v |-> l]

FNone == [ty |-> "none"]

\* argument tuples of the searches the model makes (constants.py: JQL_*, FIELDS)
SearchCalls ==
    { [jql |-> "JQL_PEND", fields |-> FStr(<<"summary", ",", "status">>),
       page_size |-> 100, reconcile |-> FALSE],
      [jql |-> "JQL_AG", fields |-> FStr(<<" ", "summary", " ", ",", ",", "status", ",", " ">>),
       page_size |-> 2, reconcile |-> TRUE],
      [jql |-> "JQL_TC", fields |-> FList(<< <<"status">> >>),
       page_size |-> 2, reconcile |-> FALSE],
      [jql |-> "JQL_TC", fields |-> FNone,
       page_size |-> 100, reconcile |-> FALSE] }

\* lines 139-142: the list of field names sent in every page request
FieldsList(fields) ==
    IF fields.ty = "str" THEN SelectNonEmptyStripped(split(fields.v, ","))
    ELSE IF fields.ty = "list" THEN fields.v
    ELSE <<>>

\* mutant of SearchBody: the cursor is left out of the body
SearchBodyNoToken(jql, page_size, fields_list, reconcile, next_page_token) ==
    [jql |-> jql,
     maxResults |-> page_size,
     fields |-> fields_list,
     reconcileIssues |-> IF reconcile THEN Some(<<>>) ELSE None,
     nextPageToken |-> None]

\* lines 149-157: the body of one page request
SearchBody(jql, page_size, fields_list, reconcile, next_page_token) ==
    [jql |-> jql,
     maxResults |-> page_size,
     fields |-> fields_list,
     reconcileIssues |-> IF reconcile THEN Some(<<>>) ELSE None,
     nextPageToken |-> IF truthy(next_page_token) THEN next_page_token ELSE None]

\* {"method": "POST", **body}
WithMethod(body) ==
    [method |-> "POST", jql |-> body.jql, maxResults |-> body.maxResults,
     fields |-> body.fields, reconcileIssues |-> body.reconcileIssues,
     nextPageToken |-> body.nextPageToken]

\* mutant of extend: the batch replaces the accumulator (issues = batch)
extendOverwrite(list, batch) == batch

\* list.extend
extend(list, batch) == list \o batch

\* mutant of HasNextPage: the loop never takes a page for the last one
HasNextPageAlways(next_page_token) == TRUE

\* mutant of HasNextPage: `is not None` in place of truthiness
HasNextPageNotNone(next_page_token) == next_page_token # None

\* line 172: the loop goes on after a page iff `not next_page_token` is false
HasNextPage(next_page_token) == truthy(next_page_token)

\* mutant of SearchFailure: the pages fetched so far are returned
SearchFailurePartial(issues, url, body, status, err) ==
    << issues,
       [url |-> url, params |-> body, status |-> status, error |-> err,
        count |-> Len(issues), method |-> "POST"] >>

\* lines 164 and 176: what the search returns when a page fails
\* (`issues` is the accumulator at that point; the code does not return it)
SearchFailure(issues, url, body, status, err) ==
    << <<>>,
       [url |-> url, params |-> body, status |-> status, error |-> err,
        count |-> 0, method |-> "POST"] >>

\* line 179: what the search returns after the last page
SearchSuccess(issues, url) ==
    << issues, [url |-> url, status |-> 200, count |-> Len(issues), method |-> "POST"] >>

\* issue records as a search page carries them
I1 == [key |-> "FSA-1"]

I2 == [key |-> "FSA-2"]

\* the `issues` batches a page may carry
Batches == { <<>>, <<I1>>, <<I1, I2>>, <<I2, I2>> }

\* the cursors a page may carry: null, "", "A", "B" (or no nextPageToken key)
Tokens == { JNull, JStr(<<>>), JStr(<<"A">>), JStr(<<"B">>) }

\* error responses of the remote system
ErrorReplies ==
    { Http(400, "Bad Request", None),
      Http(401, "{errorMessages}", Some([t |-> "object", errorMessages |-> "unauthorized"])) }

\* a 200 response whose body is not JSON, and one whose JSON is not an object
NotJson == Http(200, "<html>", None)

NotObject == Http(200, "[]", Some(JList(<<>>)))

\* replies to POST /search/jql
SearchReplies ==
    { TransportFailure, NotJson, NotObject } \cup ErrorReplies
    \cup { Http(200, "{page}", Some([t |-> "object", issues |-> i, nextPageToken |-> k])) :
             i \in {None, Some(JNull)} \cup { Some(JList(b)) : b \in Batches },
             k \in {None} \cup { Some(x) : x \in Tokens } }

\* one pass of the while loop (lines 149-176) and, when it leaves the loop, lines
\* 178-179. `l` are the locals, `body` the request body, `reply` the reply;
\* `caught` says whether the JSON error of r.json() is a RequestException
\* (requests >= 2.27) or a plain ValueError that the except clause lets through.
SearchStep(l, body, reply, caught) ==
    LET failure(status, err) ==
            [pc |-> "returned", loc |-> l,
             ret |-> [kind |-> "return",
                      value |-> SearchFailure(l.issues, l.url, body, status, err)],
             recorder |-> Some(_set_debug(l.url, Some(WithMethod(body)), status, Some(err), 0, "POST"))]
        raise(exc) ==
            [pc |-> "raised", loc |-> l, ret |-> [kind |-> "raise", exc |-> exc],
             recorder |-> None]
    IN  IF reply.kind = "exc" THEN failure(-1, ErrText(reply.msg))
        ELSE IF reply.status_code # 200 THEN failure(reply.status_code, _safe_json(reply))
        ELSE IF reply.json = None
             THEN (IF caught THEN failure(-1, ErrText("JSONDecodeError")) ELSE raise("ValueError"))
        ELSE LET data == reply.json[1] IN
        IF data.t # "object" THEN raise("AttributeError")
        ELSE LET batch == Get(data.issues, JList(<<>>)) IN
        IF batch.t # "list" THEN raise("TypeError")
        ELSE LET issues == extend(l.issues, batch.v)
                 next_page_token == PyOpt(Get(data.nextPageToken, JNull))
                 last_resp == [url |-> l.url, params |-> body, status |-> 200,
                               count |-> Len(batch.v), method |-> "POST"]
                 l2 == [l EXCEPT !.issues = issues, !.next_page_token = next_page_token,
                                 !.last_resp = Some(last_resp)]
             IN  IF HasNextPage(next_page_token)
                 THEN [pc |-> "search", loc |-> l2, ret |-> ret, recorder |-> None]
                 ELSE [pc |-> "returned", loc |-> l2,
                       ret |-> [kind |-> "return", value |-> SearchSuccess(issues, l.url)],
                       recorder |-> Some(_set_debug(l.url, Some(last_resp.params), last_resp.status,
                                                    None, Len(issues), "POST"))]

NoLocals == [url |-> <<>>, fields_list |-> <<>>, issues |-> <<>>,
             next_page_token |-> None, last_resp |-> None]

NoCall == [op |-> "none"]

NoReturn == [kind |-> "none"]

\* buscar_chamados_enhanced, lines 136-146: up to the first pass of the loop
BuscarStart(a) ==
    /\ pc # "search"
    /\ call' = [op |-> "buscar_chamados_enhanced", jql |-> a.jql, fields |-> a.fields,
                page_size |-> a.page_size, reconcile |-> a.reconcile]
    /\ reqLog' = <<>>
    /\ respLog' = <<>>
    /\ IF BaseRaises(client)
       THEN /\ pc' = "raised"
            /\ ret' = [kind |-> "raise", exc |-> "ValueError"]
            /\ loc' = NoLocals
       ELSE /\ pc' = "search"
            /\ ret' = NoReturn
            /\ loc' = [url |-> _base(client) \o <<"/search/jql">>,
                       fields_list |-> FieldsList(a.fields),
                       issues |-> <<>>, next_page_token |-> None, last_resp |-> None]
    /\ UNCHANGED <<client, recorder, httpCalls>>
    /\ UNCHANGED dashVars

\* one pass of the loop: one POST and what the code does with the reply
BuscarPage(reply, caught) ==
    /\ pc = "search"
    /\ Len(reqLog) < MaxPages
    /\ LET body == SearchBody(call.jql, call.page_size, loc.fields_list, call.reconcile,
                              loc.next_page_token)
           out == SearchStep(loc, body, reply, caught)
       IN  /\ reqLog' = Append(reqLog, _req(client, "POST", loc.url, Some(body), None, TRUE))
           /\ respLog' = Append(respLog, reply)
           /\ httpCalls' = httpCalls + 1
           /\ pc' = out.pc
           /\ loc' = out.loc
           /\ ret' = out.ret
           /\ recorder' = IF out.recorder = None THEN recorder ELSE out.recorder[1]
    /\ UNCHANGED <<client, call>>
    /\ UNCHANGED dashVars

\* nothing is known of the remote issues and no dashboard runs
NoRemote == [k \in {} |-> <<>>]

NoUi == [handler |-> "none", keys |-> <<>>, requests |-> 0, posts |-> <<>>, count |-> 0,
         errors |-> <<>>, msg |-> "none", appended |-> FALSE]

\* a user is logged in and the session holds the client made for it
LoggedIn == [authentication_status |-> TRUE, jira_client |-> TRUE]

InitClient ==
    /\ client \in { JiraAPI(a) : a \in Constructions }
    /\ recorder = NoDebug
    /\ httpCalls = 0
    /\ pc = "idle"
    /\ call = NoCall
    /\ loc = NoLocals
    /\ reqLog = <<>>
    /\ respLog = <<>>
    /\ ret = NoReturn
    /\ remote = NoRemote
    /\ history = <<>>
    /\ ui = NoUi
    /\ session = LoggedIn

NextSearch ==
    \/ \E a \in SearchCalls : pc = "idle" /\ BuscarStart(a)
    \/ \E reply \in SearchReplies, caught \in BOOLEAN : BuscarPage(reply, caught)

\* one search on a new client
SpecSearch == InitClient /\ [][NextSearch]_vars

\* one search on a new client, where the loop runs on: every request the loop
\* sends comes back, as a response or as an exception, and the code goes on
\* from it (the loop has no other wait)
SpecSearchFair ==
    SpecSearch /\ WF_vars(\E reply \in SearchReplies, caught \in BOOLEAN : BuscarPage(reply, caught))

(* ----------------------- single-request operations ------------------- *)

\* requests one session may make before the model stops following it
MaxCalls == 3

Raise(exc) == [kind |-> "raise", exc |-> exc]

Return(v) == [kind |-> "return", value |-> v]

\* issue keys the dashboard works on
Keys == {"FSA-1", "FSA-2"}

\* constants.py: the status names (texts: the dashboard searches them for parts)
STATUS_NAME_AGENDAMENTO == <<"AGEND", "AMENTO">>

STATUS_NAME_AGENDADO == <<"Agend", "ado">>

STATUS_NAME_TEC_CAMPO == <<"TEC-CAMPO">>

\* transition descriptors as GET /issue/{key}/transitions lists them
T_AGENDAR == [id |-> "5", name |-> <<"Agend", "ar">>, to |-> Some([name |-> STATUS_NAME_AGENDADO])]

T_TEC_CAMPO == [id |-> "6", name |-> <<"Tec-Campo">>, to |-> Some([name |-> STATUS_NAME_TEC_CAMPO])]

T_DEVOLVER == [id |-> "7", name |-> <<"Devolver">>, to |-> Some([name |-> STATUS_NAME_AGENDAMENTO])]

T_REAGENDAR == [id |-> "8", name |-> <<"Re", "agend", "ar">>, to |-> Some([name |-> STATUS_NAME_AGENDADO])]

\* a 200 response carrying the JSON object `obj`
Ok(obj) == Http(200, "{json}", Some(obj))

\* replies to GET /myself and to POST /jql/parse
PlainReplies ==
    { TransportFailure, NotJson, NotObject, Ok([t |-> "object"]) } \cup ErrorReplies

\* replies to POST /search/approximate-count
CountReplies ==
    { TransportFailure, NotJson, NotObject,
      Ok([t |-> "object", count |-> None]), Ok([t |-> "object", count |-> Some(7)]) }
    \cup ErrorReplies

\* replies to GET /issue/{key}/transitions
TransitionsReplies ==
    { TransportFailure, NotJson, NotObject,
      Ok([t |-> "object", transitions |-> None]),
      Ok([t |-> "object", transitions |-> Some(JNull)]),
      Ok([t |-> "object", transitions |-> Some(JList(<<>>))]),
      Ok([t |-> "object", transitions |-> Some(JList(<<T_AGENDAR, T_TEC_CAMPO>>))]) }
    \cup ErrorReplies

\* replies to GET /issue/{key}?fields=status
IssueReplies ==
    { TransportFailure, NotJson, NotObject,
      Ok([t |-> "object", fields |-> Some([status |-> Some([name |-> STATUS_NAME_AGENDADO])])]) }
    \cup ErrorReplies

\* replies to POST /issue/{key}/transitions
PostReplies ==
    { TransportFailure, Http(204, "", None), Http(200, "{}", Some([t |-> "object"])),
      Http(400, "Bad Request", None) }

\* r.json() failed: the except clause catches it when it is a RequestException
\* (requests >= 2.27); otherwise the ValueError leaves the operation
JsonError(caught, recovered) == IF caught THEN Return(recovered) ELSE Raise("ValueError")

\* whoami, lines 91-100
whoami(c, reply, caught) ==
    IF BaseRaises(c) THEN Raise("ValueError")
    ELSE LET url == _base(c) \o <<"/myself">>
             failed(e) == <<None, [url |-> url, status |-> -1, error |-> ErrText(e)]>>
         IN  IF reply.kind = "exc" THEN Return(failed(reply.msg))
             ELSE IF reply.status_code = 200
                  THEN (IF reply.json = None THEN JsonError(caught, failed("JSONDecodeError"))
                        ELSE Return(<<Some(reply.json[1]),
                                      [url |-> url, status |-> reply.status_code]>>))
             ELSE Return(<<None, [url |-> url, status |-> reply.status_code,
                                  error |-> _safe_json(reply)]>>)

\* parse_jql, lines 103-114
parse_jql(c, jql, reply, caught) ==
    IF BaseRaises(c) THEN Raise("ValueError")
    ELSE LET url == _base(c) \o <<"/jql/parse">>
             failed(e) == [url |-> url, status |-> -1, error |-> ErrText(e)]
         IN  IF reply.kind = "exc" THEN Return(failed(reply.msg))
             ELSE IF reply.status_code = 200
                  THEN (IF reply.json = None THEN JsonError(caught, failed("JSONDecodeError"))
                        ELSE Return([url |-> url, status |-> reply.status_code,
                                     result |-> reply.json[1]]))
             ELSE Return([url |-> url, status |-> reply.status_code,
                          error |-> _safe_json(reply)])

\* count_jql, lines 117-128
count_jql(c, jql, reply, caught) ==
    IF BaseRaises(c) THEN Raise("ValueError")
    ELSE LET url == _base(c) \o <<"/search/approximate-count">>
             failed(e) == [url |-> url, status |-> -1, error |-> ErrText(e)]
         IN  IF reply.kind = "exc" THEN Return(failed(reply.msg))
             ELSE IF reply.status_code = 200
                  THEN (IF reply.json = None THEN JsonError(caught, failed("JSONDecodeError"))
                        ELSE IF reply.json[1].t # "object" THEN Raise("AttributeError")
                        ELSE Return([url |-> url, status |-> reply.status_code,
                                     count |-> Get(reply.json[1].count, 0)]))
             ELSE Return([url |-> url, status |-> reply.status_code,
                          error |-> _safe_json(reply)])

\* get_transitions, lines 201-208
get_transitions(c, issue_key, reply, caught) ==
    IF BaseRaises(c) THEN Raise("ValueError")
    ELSE IF reply.kind = "exc" THEN Return(JList(<<>>))
    ELSE IF reply.status_code = 200
         THEN (IF reply.json = None THEN JsonError(caught, JList(<<>>))
               ELSE IF reply.json[1].t # "object" THEN Raise("AttributeError")
               ELSE Return(Get(reply.json[1].transitions, JList(<<>>))))
    ELSE Return(JList(<<>>))

\* get_issue, lines 211-219
get_issue(c, issue_key, reply, caught) ==
    IF BaseRaises(c) THEN Raise("ValueError")
    ELSE IF reply.kind = "exc" THEN Return([t |-> "object"])
    ELSE IF reply.status_code = 200
         THEN (IF reply.json = None THEN JsonError(caught, [t |-> "object"])
               ELSE Return(reply.json[1]))
    ELSE Return([t |-> "object"])

\* transicionar_status, lines 222-226: the Response, or the exception of the call
transicionar_status(c, issue_key, transition_id, fields, reply) ==
    IF BaseRaises(c) THEN Raise("ValueError")
    ELSE IF reply.kind = "exc" THEN Raise("RequestException")
    ELSE Return(reply)

\* the request each operation sends (the arguments it gives _req)
WhoamiReq(c) == _req(c, "GET", _base(c) \o <<"/myself">>, None, None, FALSE)

ParseJqlReq(c, jql) ==
    _req(c, "POST", _base(c) \o <<"/jql/parse">>,
         Some([queries |-> <<jql>>, validation |-> "STRICT"]), None, TRUE)

CountJqlReq(c, jql) ==
    _req(c, "POST", _base(c) \o <<"/search/approximate-count">>, Some([jql |-> jql]), None, TRUE)

GetTransitionsReq(c, issue_key) ==
    _req(c, "GET", _base(c) \o <<"/issue", "/", issue_key, "/transitions">>, None, None, FALSE)

GetIssueReq(c, issue_key) ==
    _req(c, "GET", _base(c) \o <<"/issue", "/", issue_key>>, None,
         Some([fields |-> "status"]), FALSE)

\* lines 223-225: `fields` joins the payload only when it is not empty
TransitionPayload(transition_id, fields) ==
    [transition |-> [id |-> transition_id], fields |-> fields]

TransicionarReq(c, issue_key, transition_id, fields) ==
    _req(c, "POST", _base(c) \o <<"/issue", "/", issue_key, "/transitions">>,
         Some(TransitionPayload(transition_id, fields)), None, TRUE)

\* one operation that sends at most one request: `op` is the call, `sent` the
\* request (sent unless _base raised), `out` the outcome
OneRequest(op, sent, reply, out) ==
    /\ pc # "search"
    /\ httpCalls < MaxCalls
    /\ call' = op
    /\ loc' = NoLocals
    /\ ret' = out
    /\ pc' = IF out.kind = "raise" THEN "raised" ELSE "returned"
    /\ IF BaseRaises(client)
       THEN reqLog' = <<>> /\ respLog' = <<>> /\ httpCalls' = httpCalls
       ELSE reqLog' = <<sent>> /\ respLog' = <<reply>> /\ httpCalls' = httpCalls + 1
    /\ UNCHANGED <<client, recorder>>
    /\ UNCHANGED dashVars

Whoami(reply, caught) ==
    OneRequest([op |-> "whoami"], WhoamiReq(client), reply, whoami(client, reply, caught))

ParseJql(jql, reply, caught) ==
    OneRequest([op |-> "parse_jql", jql |-> jql], ParseJqlReq(client, jql), reply,
               parse_jql(client, jql, reply, caught))

CountJql(jql, reply, caught) ==
    OneRequest([op |-> "count_jql", jql |-> jql], CountJqlReq(client, jql), reply,
               count_jql(client, jql, reply, caught))

GetTransitions(issue_key, reply, caught) ==
    OneRequest([op |-> "get_transitions", issue_key |-> issue_key],
               GetTransitionsReq(client, issue_key), reply,
               get_transitions(client, issue_key, reply, caught))

GetIssue(issue_key, reply, caught) ==
    OneRequest([op |-> "get_issue", issue_key |-> issue_key],
               GetIssueReq(client, issue_key), reply,
               get_issue(client, issue_key, reply, caught))

TransicionarStatus(issue_key, transition_id, fields, reply) ==
    OneRequest([op |-> "transicionar_status", issue_key |-> issue_key,
                transition_id |-> transition_id, fields |-> fields],
               TransicionarReq(client, issue_key, transition_id, fields), reply,
               transicionar_status(client, issue_key, transition_id, fields, reply))

\* the searches and the pages of a session that mixes the operations
SessionSearchCalls == { a \in SearchCalls : a.jql # "JQL_TC" }

SessionSearchReplies ==
    { r \in SearchReplies :
        (r.kind = "http" /\ r.status_code = 200 /\ r.json # None /\ r.json[1].t = "object")
                       => /\ r.json[1].issues \in {None, Some(JList(<<I1>>))}
                          /\ r.json[1].nextPageToken \in {None, Some(JStr(<<"A">>))} }

Next ==
    \/ \E reply \in PlainReplies, caught \in BOOLEAN : Whoami(reply, caught)
    \/ \E reply \in PlainReplies, caught \in BOOLEAN : ParseJql("JQL_PEND", reply, caught)
    \/ \E reply \in CountReplies, caught \in BOOLEAN : CountJql("JQL_PEND", reply, caught)
    \/ \E k \in Keys, reply \in TransitionsReplies, caught \in BOOLEAN :
          GetTransitions(k, reply, caught)
    \/ \E k \in Keys, reply \in IssueReplies, caught \in BOOLEAN : GetIssue(k, reply, caught)
    \/ \E k \in Keys, id \in {"5", "6"}, reply \in PostReplies :
          TransicionarStatus(k, id, None, reply)
    \/ \E a \in SessionSearchCalls : httpCalls < MaxCalls /\ BuscarStart(a)
    \/ \E reply \in SessionSearchReplies, caught \in BOOLEAN :
          httpCalls < MaxCalls /\ BuscarPage(reply, caught)

\* a session of operations on one client
Spec == InitClient /\ [][Next]_vars

(* --------------------------- agrupar_chamados ------------------------- *)

\* issues one call of agrupar_chamados may be given
MaxIssues == 3

\* a JSON object {"value": ...}, as Jira gives an option field; {} has no "value"
Option(value) == [t |-> "object", value |-> value]

\* the `fields` object of an issue: each member is None when the key is missing
Fields(loja, pdv, ativo, uf) ==
    [t |-> "object",
     customfield_14954 |-> loja,
     customfield_14829 |-> pdv,
     customfield_14825 |-> ativo,
     customfield_12374 |-> Some(JStr("no boot")),
     customfield_12271 |-> None,
     customfield_11948 |-> uf,
     customfield_11993 |-> Some(JNull),
     customfield_11994 |-> Some(JStr("Recife")),
     customfield_12036 |-> None]

Loja(name) == Some(Option(Some(JStr(name))))

\* the issues the model groups: complete ones, and ones with a field missing,
\* null or without "value"
IssueShapes ==
    { [key |-> Some("FSA-1"), fields |-> Some(Fields(Loja("L1"), Some(JStr("1")), Loja("A"), Loja("PE")))],
      [key |-> Some("FSA-2"), fields |-> Some(Fields(Loja("L1"), Some(JStr("1")), Loja("A"), None))],
      [key |-> Some("FSA-3"), fields |-> Some(Fields(Loja("L2"), Some(JStr("2")), Loja("B"), Some(JNull)))],
      [key |-> Some("FSA-4"), fields |-> Some(Fields(None, None, None, None))],
      [key |-> Some("FSA-5"), fields |-> Some(Fields(Some(JNull), Some(JStr("1")), Loja("A"), None))],
      [key |-> Some("FSA-6"), fields |-> Some(Fields(Loja("L2"), Some(JNull), Some(JNull), None))],
      [key |-> Some("FSA-7"), fields |-> Some(Fields(Some(Option(None)), None, Some(Option(None)), Some(Option(None))))],
      [key |-> Some("FSA-8"), fields |-> Some(Fields(Some(Option(Some(JNull))), None, Loja("A"), None))],
      [key |-> Some("FSA-9"), fields |-> None],
      [key |-> Some("FSA-10"),
       fields |-> Some([Fields(Loja("L1"), Some(JStr("2")), Loja("B"), Loja("PE"))
                          EXCEPT !.customfield_12036 = Some(JStr("2025-01-10T09:00"))])] }

\* an Optional key of a dict as the Python value dict.get(key) gives: None when missing
Value(member) == Get(member, JNull)

\* one pass of the for loop, lines 185-197: the store and the projected record,
\* or the AttributeError of calling .get on None
Project(issue) ==
    LET f == Get(issue.fields, Option(None)) IN
    IF f.t # "object" THEN [raises |-> TRUE]
    ELSE IF issue.fields = None
         THEN [raises |-> FALSE, loja |-> JStr("Loja Desconhecida"),
               rec |-> [key |-> issue.key, pdv |-> JStr("--"), ativo |-> JStr("--"),
                        problema |-> JStr("--"), endereco |-> JStr("--"), estado |-> JStr("--"),
                        cep |-> JStr("--"), cidade |-> JStr("--"), data_agendada |-> JNull]]
    ELSE LET lojaField == Get(f.customfield_14954, Option(None))
             ativoField == Get(f.customfield_14825, Option(None))
             uf == Value(f.customfield_11948)
             ufField == IF uf.t = "null" THEN Option(None) ELSE uf
         IN  IF lojaField.t # "object" \/ ativoField.t # "object" \/ ufField.t # "object"
             THEN [raises |-> TRUE]
             ELSE [raises |-> FALSE,
                   loja |-> Get(lojaField.value, JStr("Loja Desconhecida")),
                   rec |-> [key |-> issue.key,
                            pdv |-> Get(f.customfield_14829, JStr("--")),
                            ativo |-> Get(ativoField.value, JStr("--")),
                            problema |-> Get(f.customfield_12374, JStr("--")),
                            endereco |-> Get(f.customfield_12271, JStr("--")),
                            estado |-> Get(ufField.value, JStr("--")),
                            cep |-> Get(f.customfield_11993, JStr("--")),
                            cidade |-> Get(f.customfield_11994, JStr("--")),
                            data_agendada |-> Value(f.customfield_12036)]]

\* mutant of AppendTo: the record goes to the front of the store's list
AppendToFront(agrup, loja, rec) ==
    IF loja \in DOMAIN agrup
    THEN [agrup EXCEPT ![loja] = <<rec>> \o @]
    ELSE agrup @@ (loja :> <<rec>>)

\* agrup[loja].append(rec) on the defaultdict(list), line 187
AppendTo(agrup, loja, rec) ==
    IF loja \in DOMAIN agrup
    THEN [agrup EXCEPT ![loja] = Append(@, rec)]
    ELSE agrup @@ (loja :> <<rec>>)

RECURSIVE agrupar_loop(_, _)
\* the for loop of agrupar_chamados over the issues still to come
agrupar_loop(issues, agrup) ==
    IF issues = <<>> THEN Return(agrup)
    ELSE LET p == Project(Head(issues))
         IN  IF p.raises THEN Raise("AttributeError")
             ELSE agrupar_loop(Tail(issues), AppendTo(agrup, p.loja, p.rec))

\* agrupar_chamados, lines 182-198
agrupar_chamados(issues) == agrupar_loop(issues, [x \in {} |-> <<>>])

\* the lists of at most MaxIssues issues
IssueLists == UNION { [1..n -> IssueShapes] : n \in 0..MaxIssues }

\* a call of agrupar_chamados: it makes no request and touches no attribute
Agrupar(issues) ==
    /\ pc # "search"
    /\ call' = [op |-> "agrupar_chamados", issues |-> issues]
    /\ ret' = agrupar_chamados(issues)
    /\ pc' = IF ret'.kind = "raise" THEN "raised" ELSE "returned"
    /\ reqLog' = <<>>
    /\ respLog' = <<>>
    /\ loc' = NoLocals
    /\ UNCHANGED <<client, recorder, httpCalls>>
    /\ UNCHANGED dashVars

NextGroup == \E issues \in IssueLists : pc = "idle" /\ Agrupar(issues)

\* one call of agrupar_chamados on a new client
SpecGroup == InitClient /\ [][NextGroup]_vars

(* ------------------------- verificar_duplicidade ---------------------- *)

\* records one call of verificar_duplicidade may be given
MaxChamados == 3

\* the records handed to verificar_duplicidade, by what they hold as
\* point-of-sale id and as asset: None (ch.get(...) gives it for a missing key
\* as for a null one), the placeholder of agrupar_chamados, or an identifier
Chamados ==
    { [pdv |-> p, ativo |-> a] : p \in { JNull, JStr("--"), JStr("1"), JStr("2") },
                                 a \in { JNull, JStr("--"), JStr("A") } }

ChamadoLists == UNION { [1..n -> Chamados] : n \in 0..MaxChamados }

\* mutant of DupKey: the asset is left out of the key
DupKeyPdvOnly(ch) == <<ch.pdv, ch.pdv>>

\* line 52: key = (ch.get("pdv"), ch.get("ativo"))
DupKey(ch) == <<ch.pdv, ch.ativo>>

RECURSIVE verificar_loop(_, _, _)
\* lines 51-56: the for loop over the records still to come
verificar_loop(chamados, seen, duplicates) ==
    IF chamados = <<>> THEN duplicates
    ELSE LET key == DupKey(Head(chamados))
         IN  IF key \in seen
             THEN verificar_loop(Tail(chamados), seen, duplicates \cup { key })
             ELSE verificar_loop(Tail(chamados), seen \cup { key }, duplicates)

\* verificar_duplicidade, lines 45-57
verificar_duplicidade(chamados) == verificar_loop(chamados, {}, {})

\* loja_from_issue, streamlit_app.py lines 128-130
loja_from_issue(issue) ==
    LET f == Get(issue.fields, Option(None))
        field == IF f.t # "object" \/ issue.fields = None THEN JNull
                 ELSE Value(f.customfield_14954)
        value == IF field.t # "object" THEN JNull ELSE Value(field.value)
    IN  IF value.t = "null" THEN JStr("Loja Desconhecida") ELSE value

\* lines 709-711: the keys of the records whose pair is among the duplicates
dup_keys(detalhes, duplicados) ==
    SelectSeq(detalhes, LAMBDA d : DupKey(d) \in duplicados)

\* a call of verificar_duplicidade: it reads its argument and nothing else
VerificarDuplicidade(chamados) ==
    /\ pc = "idle"
    /\ call' = [op |-> "verificar_duplicidade", chamados |-> chamados]
    /\ ret' = Return(verificar_duplicidade(chamados))
    /\ pc' = "returned"
    /\ UNCHANGED <<client, recorder, httpCalls, loc, reqLog, respLog>>
    /\ UNCHANGED dashVars

\* one store of the scheduled view, lines 706-711: its issues are projected,
\* the duplicates among them found and the "Dup" tag made
DupTag(loja, iss) ==
    /\ pc = "idle"
    /\ \A i \in DOMAIN iss : loja_from_issue(iss[i]) = loja
    /\ call' = [op |-> "dup_tag", loja |-> loja, issues |-> iss]
    /\ LET detalhes_map == agrupar_chamados(iss)
       IN  IF detalhes_map.kind = "raise"
           THEN ret' = detalhes_map
           ELSE LET detalhes == IF loja \in DOMAIN detalhes_map.value
                                THEN detalhes_map.value[loja] ELSE <<>>
                    duplicados == verificar_duplicidade(detalhes)
                IN  ret' = Return([detalhes |-> detalhes, duplicados |-> duplicados,
                                   dup_keys |-> dup_keys(detalhes, duplicados)])
    /\ pc' = IF ret'.kind = "raise" THEN "raised" ELSE "returned"
    /\ UNCHANGED <<client, recorder, httpCalls, loc, reqLog, respLog>>
    /\ UNCHANGED dashVars

NextDup ==
    \/ \E chamados \in ChamadoLists : VerificarDuplicidade(chamados)
    \/ \E loja \in { loja_from_issue(i) : i \in IssueShapes }, iss \in IssueLists :
         DupTag(loja, iss)

\* one call of the duplicate detection on a new client
SpecDup == InitClient /\ [][NextDup]_vars

(* ------------------------------ dashboard ----------------------------- *)

\* entries the history may hold before the model stops following the session
MaxHistory == 2

\* requests of one handler run that the remote system may answer abnormally
MaxFaults == 1

Statuses == { STATUS_NAME_AGENDAMENTO, STATUS_NAME_AGENDADO, STATUS_NAME_TEC_CAMPO }

\* the remote workflow: the transitions an issue in status `s` offers
Workflow(s) ==
    IF s = STATUS_NAME_AGENDAMENTO THEN <<T_AGENDAR>>
    ELSE IF s = STATUS_NAME_AGENDADO THEN <<T_TEC_CAMPO, T_DEVOLVER>>
    ELSE <<T_REAGENDAR>>

\* str.lower() of one chunk of a name
LowerChunk(c) ==
    CASE c = "Agend" -> "agend"
      [] c = "AGEND" -> "agend"
      [] c = "AMENTO" -> "amento"
      [] c = "Re" -> "re"
      [] c = "Tec-Campo" -> "tec-campo"
      [] c = "TEC-CAMPO" -> "tec-campo"
      [] c = "Devolver" -> "devolver"
      [] OTHER -> c

lower(text) == [i \in DOMAIN text |-> LowerChunk(text[i])]

\* `part in text`
Contains(text, part) == \E i \in DOMAIN text : text[i] = part

\* the placeholder the dashboard shows for a missing value
DASH == <<"-">>

\* (t.get("to", {}) or {}).get("name"): None when there is no target
ToName(t) == IF t.to = None THEN None ELSE Some(t.to[1].name)

\* next((t["id"] for t in trans if ...), None): `hits` are the positions of
\* the descriptors that pass the test
FirstId(trans, hits) ==
    IF hits = {} THEN None
    ELSE Some(trans[CHOOSE i \in hits : \A j \in hits : i <= j].id)

\* {t["name"]: t["id"] for t in trans}[name]: the last descriptor of a name wins
DictId(trans, name) ==
    LET hits == { i \in DOMAIN trans : trans[i].name = name }
    IN  trans[CHOOSE i \in hits : \A j \in hits : j <= i].id

\* the abnormal answers of the remote system to one request
Faults == { "http400", "http200", "exc" }

\* most requests one handler run sends: two per key in each loop of the quick flow
MaxRequests == 4 * Cardinality(Keys)

NoFault == [i \in 1..MaxRequests |-> "none"]

RECURSIVE OraclesWith(_, _)
\* the answers of the remote system to the first `requests` requests of one
\* handler run, by position of the request, with at most `n` abnormal ones
OraclesWith(n, requests) ==
    IF n = 0 THEN { NoFault }
    ELSE LET fewer == OraclesWith(n - 1, requests)
         IN  fewer \cup { [f EXCEPT ![p] = k] : f \in fewer, p \in 1..requests, k \in Faults }

Oracles(requests) == OraclesWith(MaxFaults, requests)

\* the reply to GET /issue/{key}/transitions of an issue in status `status`
TransitionsReply(status, fault) ==
    IF fault = "none" THEN Ok([t |-> "object", transitions |-> Some(JList(Workflow(status)))])
    ELSE IF fault = "http400" THEN Http(400, "Bad Request", None)
    ELSE IF fault = "http200" THEN NotObject
    ELSE TransportFailure

\* the reply to GET /issue/{key}?fields=status of an issue in status `status`
IssueReply(status, fault) ==
    IF fault = "none"
    THEN Ok([t |-> "object", fields |-> Some([status |-> Some([name |-> status])])])
    ELSE IF fault = "http400" THEN Http(400, "Bad Request", None)
    ELSE IF fault = "http200" THEN Ok([t |-> "object", fields |-> Some([status |-> None])])
    ELSE TransportFailure

\* the remote system accepts transition `id` for an issue in status `status`
Accepts(status, id, fault) ==
    fault = "none" /\ \E i \in DOMAIN Workflow(status) : Workflow(status)[i].id = id

\* the reply to POST /issue/{key}/transitions
PostReply(status, id, fault) ==
    IF fault = "exc" THEN TransportFailure
    ELSE IF fault = "http200" THEN Http(200, "{}", Some([t |-> "object"]))
    ELSE IF Accepts(status, id, fault) THEN Http(204, "", None)
    ELSE Http(400, "Bad Request", None)

\* the status of the issue after that POST
Target(status, id, fault) ==
    IF Accepts(status, id, fault)
    THEN LET w == Workflow(status)
         IN  w[CHOOSE i \in DOMAIN w : w[i].id = id].to[1].name
    ELSE status

\* a handler run so far: the remote statuses, the requests sent, the POSTs with
\* what the handler made of each, its counter and its error list
Start == [remote |-> remote, n |-> 0, posts |-> <<>>, count |-> 0, errors |-> <<>>,
          raised |-> FALSE]

\* mutant of Post: a status other than 204 is never listed
PostUnlisted(st, key, id, fields, oracle, counts, reports) ==
    LET fault == oracle[st.n + 1]
        r == transicionar_status(client, key, id, fields, PostReply(st.remote[key], id, fault))
    IN  IF r.kind = "raise"
        THEN [st EXCEPT !.n = @ + 1, !.raised = TRUE,
                        !.posts = Append(@, [key |-> key, id |-> id, status |-> None,
                                             counted |-> FALSE, reported |-> FALSE])]
        ELSE LET code == r.value.status_code
                 ok == code = 204
             IN  [st EXCEPT !.n = @ + 1,
                            !.remote[key] = Target(st.remote[key], id, fault),
                            !.count = IF counts /\ ok THEN @ + 1 ELSE @,
                            !.posts = Append(@, [key |-> key, id |-> id, status |-> Some(code),
                                                 counted |-> counts /\ ok,
                                                 reported |-> FALSE])]

\* r = jira.transicionar_status(key, id, fields) and the branch on r.status_code:
\* `counts` where the call site counts a 204, `reports` where it lists another status
Post(st, key, id, fields, oracle, counts, reports) ==
    LET fault == oracle[st.n + 1]
        r == transicionar_status(client, key, id, fields, PostReply(st.remote[key], id, fault))
    IN  IF r.kind = "raise"
        THEN [st EXCEPT !.n = @ + 1, !.raised = TRUE,
                        !.posts = Append(@, [key |-> key, id |-> id, status |-> None,
                                             counted |-> FALSE, reported |-> FALSE])]
        ELSE LET code == r.value.status_code
                 ok == code = 204
             IN  [st EXCEPT !.n = @ + 1,
                            !.remote[key] = Target(st.remote[key], id, fault),
                            !.count = IF counts /\ ok THEN @ + 1 ELSE @,
                            !.errors = IF reports /\ ~ok
                                       THEN Append(@, [key |-> key, status |-> code]) ELSE @,
                            !.posts = Append(@, [key |-> key, id |-> id, status |-> Some(code),
                                                 counted |-> counts /\ ok,
                                                 reported |-> reports /\ ~ok])]

\* mutant of RevId: the first transition, whatever its target
RevIdAny(trans, from) ==
    FirstId(trans, DOMAIN trans)

\* lines 354-358: the transition whose target is the status the batch left
RevId(trans, from) ==
    FirstId(trans, { i \in DOMAIN trans : ToName(trans[i]) = Some(from) })

\* lines 490-491
AgId(trans) ==
    FirstId(trans, { i \in DOMAIN trans : Contains(lower(trans[i].name), "agend") })

\* lines 498-505
TcId(trans) ==
    FirstId(trans, { i \in DOMAIN trans :
                        Contains(lower(Get(ToName(trans[i]), <<>>)), "tec-campo") })

\* the id a loop looks for in the transitions of a key
Pick(loop, trans, from) ==
    CASE loop = "undo" -> RevId(trans, from)
      [] loop = "agendar" -> AgId(trans)
      [] loop = "tec-campo" -> TcId(trans)

\* one pass of a loop: trans = jira.get_transitions(key), then the POST of the
\* transition the loop looks for, if `trans` has one
Move(st, key, loop, from, fields, oracle, counts, reports) ==
    IF st.raised THEN st
    ELSE LET g == get_transitions(client, key,
                                  TransitionsReply(st.remote[key], oracle[st.n + 1]), TRUE)
             asked == [st EXCEPT !.n = @ + 1]
         IN  IF g.kind = "raise" THEN [asked EXCEPT !.raised = TRUE]
             ELSE LET id == Pick(loop, g.value.v, from)
                  IN  IF id # None /\ id[1] # ""
                      THEN Post(asked, key, id[1], fields, oracle, counts, reports)
                      ELSE asked

\* what the handler leaves on the screen
Shown(handler, keys, st, msg, appended) ==
    [handler |-> handler, keys |-> keys, requests |-> st.n, posts |-> st.posts,
     count |-> st.count, errors |-> st.errors, msg |-> msg, appended |-> appended]

\* a handler runs at the start of a script run of render_dashboard: a user is
\* logged in (main, line 938) and nothing of the run before is on the page
Fresh == pc = "idle" /\ ui = NoUi /\ session = LoggedIn

\* Streamlit runs the script again (a widget changed, a button was pressed):
\* what the run before showed is gone, the session state stays
Rerun ==
    /\ pc = "idle"
    /\ ui # NoUi
    /\ ui' = NoUi
    /\ UNCHANGED <<remote, history, session>>
    /\ UNCHANGED gwVars

\* mutant of ButLast: the oldest entry is the one removed
ButLastOldest(h) == Tail(h)

\* what list.pop() leaves of a list that is not empty, line 348
ButLast(h) == SubSeq(h, 1, Len(h) - 1)

RECURSIVE UndoLoopStop(_, _, _, _)
\* mutant of UndoLoop: the loop ends at the first key that was not reverted
UndoLoopStop(st, keys, from, oracle) ==
    IF keys = <<>> THEN st
    ELSE LET next == Move(st, Head(keys), "undo", from, None, oracle, TRUE, FALSE)
         IN  IF next.count = st.count THEN next
             ELSE UndoLoopStop(next, Tail(keys), from, oracle)

RECURSIVE UndoLoop(_, _, _, _)
\* lines 351-361: no branch lists a status other than 204
UndoLoop(st, keys, from, oracle) ==
    IF keys = <<>> THEN st
    ELSE UndoLoop(Move(st, Head(keys), "undo", from, None, oracle, TRUE, FALSE),
                  Tail(keys), from, oracle)

\* "Desfazer ultima acao", lines 347-364
Undo(oracle) ==
    /\ Fresh
    /\ IF history = <<>>
       THEN /\ ui' = Shown("undo", <<>>, Start, "info", FALSE)
            /\ UNCHANGED <<remote, history>>
       ELSE LET action == history[Len(history)]
                st == UndoLoop(Start, action.keys, action.from, oracle)
            IN  /\ history' = ButLast(history)
                /\ remote' = st.remote
                /\ ui' = Shown("undo", action.keys, st,
                               IF st.raised THEN "exception" ELSE "success", FALSE)
    /\ UNCHANGED session
    /\ UNCHANGED gwVars

\* a value fetch_jira_transitions may hold for a key: the transitions the issue
\* offered at some moment of the last ten minutes, or none (the fetch failed)
CachedTransitions == { Workflow(s) : s \in Statuses } \cup { <<>> }

\* the names a select box offers for `trans`, after the placeholder
Choices(trans) == { DASH } \cup { trans[i].name : i \in DOMAIN trans }

\* lines 395-409 and 543-555: the date and time join the POST for an "agend" name
ExtraFields(choice) ==
    IF Contains(lower(choice), "agend") THEN Some([customfield_12036 |-> "iso"]) ELSE None

\* (fields.get("status") or {}).get("name", default) of the issue get_issue returned
StatusName(details, default) ==
    IF "fields" \notin DOMAIN details THEN default
    ELSE LET status == details.fields[1].status
         IN  IF status = None THEN default ELSE status[1].name

\* "Executar transicao", lines 369-423
ExecutarTransicao(search_key, cached, choice, oracle) ==
    /\ Fresh
    /\ Len(history) < MaxHistory
    /\ LET g == get_issue(client, search_key, IssueReply(remote[search_key], oracle[1]), TRUE)
           asked == [Start EXCEPT !.n = 1]
       IN  IF g.kind = "raise"
           THEN /\ ui' = Shown("single", <<search_key>>, asked, "exception", FALSE)
                /\ UNCHANGED <<remote, history>>
           ELSE IF g.value = [t |-> "object"] \/ choice = DASH
           THEN /\ ui' = Shown("single", <<search_key>>, asked, "warning", FALSE)
                /\ UNCHANGED <<remote, history>>
           ELSE LET st == Post(asked, search_key, DictId(cached, choice), ExtraFields(choice),
                               oracle, TRUE, TRUE)
                    moved == ~st.raised /\ st.count = 1
                IN  /\ remote' = st.remote
                    /\ history' = IF moved
                                  THEN Append(history, [keys |-> <<search_key>>,
                                                        from |-> StatusName(g.value, DASH)])
                                  ELSE history
                    /\ ui' = Shown("single", <<search_key>>, st,
                                   IF st.raised THEN "exception"
                                   ELSE IF moved THEN "success" ELSE "error", moved)
    /\ UNCHANGED session
    /\ UNCHANGED gwVars

RECURSIVE AgendarLoop(_, _, _)
\* lines 488-494: a 204 is not counted here, another status is listed
AgendarLoop(st, keys, oracle) ==
    IF keys = <<>> THEN st
    ELSE AgendarLoop(Move(st, Head(keys), "agendar", DASH,
                          Some([customfield_12036 |-> "iso"]), oracle, FALSE, TRUE),
                     Tail(keys), oracle)

RECURSIVE TecCampoLoop(_, _, _)
\* lines 496-511
TecCampoLoop(st, keys, oracle) ==
    IF keys = <<>> THEN st
    ELSE TecCampoLoop(Move(st, Head(keys), "tec-campo", DASH, None, oracle, TRUE, TRUE),
                      Tail(keys), oracle)

\* lists of distinct keys, as one status bucket of the cached search holds for a store
KeyLists ==
    { s \in UNION { [1..n -> Keys] : n \in 0..Cardinality(Keys) } :
        \A i, j \in DOMAIN s : i # j => s[i] # s[j] }

\* "Agendar e mover N FSAs", lines 481-521
FluxoRapido(keys_pend, keys_sched, oracle) ==
    /\ Fresh
    /\ Len(history) < MaxHistory
    /\ \A i \in DOMAIN keys_pend, j \in DOMAIN keys_sched : keys_pend[i] # keys_sched[j]
    /\ LET all_keys == keys_pend \o keys_sched
           st == TecCampoLoop(AgendarLoop(Start, keys_pend, oracle), all_keys, oracle)
           clean == ~st.raised /\ st.errors = <<>>
       IN  /\ remote' = st.remote
           /\ history' = IF clean
                         THEN Append(history, [keys |-> all_keys, from |-> STATUS_NAME_AGENDADO])
                         ELSE history
           /\ ui' = Shown("quick", all_keys, st,
                          IF st.raised THEN "exception"
                          ELSE IF clean THEN "success" ELSE "error", clean)
    /\ UNCHANGED session
    /\ UNCHANGED gwVars

RECURSIVE AplicarLoop(_, _, _, _, _)
\* lines 559-564
AplicarLoop(st, keys, id, fields, oracle) ==
    IF keys = <<>> \/ st.raised THEN st
    ELSE AplicarLoop(Post(st, Head(keys), id, fields, oracle, TRUE, TRUE),
                     Tail(keys), id, fields, oracle)

\* "Aplicar", lines 523-569: `cached` is what fetch_jira_transitions holds for sel[0]
Aplicar(sel, cached, choice, oracle) ==
    /\ Fresh
    /\ Len(history) < MaxHistory
    /\ sel # <<>>
    /\ IF choice = DASH
       THEN /\ ui' = Shown("apply", sel, Start, "warning", FALSE)
            /\ UNCHANGED <<remote, history>>
       ELSE LET g == get_issue(client, sel[1], IssueReply(remote[sel[1]], oracle[1]), TRUE)
                asked == [Start EXCEPT !.n = 1]
            IN  IF g.kind = "raise"
                THEN /\ ui' = Shown("apply", sel, asked, "exception", FALSE)
                     /\ UNCHANGED <<remote, history>>
                ELSE LET prev == StatusName(g.value, STATUS_NAME_AGENDADO)
                         st == AplicarLoop(asked, sel, DictId(cached, choice),
                                           ExtraFields(choice), oracle)
                         clean == ~st.raised /\ st.errors = <<>>
                     IN  /\ remote' = st.remote
                         /\ history' = IF clean
                                       THEN Append(history, [keys |-> sel, from |-> prev])
                                       ELSE history
                         /\ ui' = Shown("apply", sel, st,
                                        IF st.raised THEN "exception"
                                        ELSE IF clean THEN "success" ELSE "error", clean)
    /\ UNCHANGED session
    /\ UNCHANGED gwVars

\* transitions one issue may offer to the lookup of undo
MaxTransitions == 3

\* the lookup of undo, lines 352-359, on a list of transitions (one of them
\* without a target) and a recorded status
ComputeInverse(trans, from) ==
    /\ pc = "idle"
    /\ call' = [op |-> "rev_id", trans |-> trans, from |-> from]
    /\ ret' = Return(RevId(trans, from))
    /\ pc' = "returned"
    /\ UNCHANGED <<client, recorder, httpCalls, loc, reqLog, respLog>>
    /\ UNCHANGED dashVars

NextInverse ==
    \E from \in Statuses \cup { DASH }, n \in 0..MaxTransitions :
        \E trans \in [1..n -> { T_AGENDAR, T_TEC_CAMPO, T_DEVOLVER, T_REAGENDAR,
                                [id |-> "9", name |-> <<"Comentar">>, to |-> None] }] :
            ComputeInverse(trans, from)

\* one lookup of the inverse transition
SpecInverse == InitClient /\ [][NextInverse]_vars

\* the dashboard opens on a routed client made for the site URL, after the
\* check of the routed configuration let it through
InitDash ==
    /\ client \in { JiraAPI(a) : a \in { b \in Constructions :
                        b.jira_url = SITE /\ b.use_ex_api /\ ~BaseRaises(JiraAPI(b)) } }
    /\ recorder = NoDebug
    /\ httpCalls = 0
    /\ pc = "idle"
    /\ call = NoCall
    /\ loc = NoLocals
    /\ reqLog = <<>>
    /\ respLog = <<>>
    /\ ret = NoReturn
    /\ remote \in [Keys -> Statuses]
    /\ history = <<>>
    /\ ui = NoUi
    /\ session = LoggedIn

NextDash ==
    \/ Rerun
    \/ \E oracle \in Oracles(IF history = <<>> THEN 0
                              ELSE 2 * Len(history[Len(history)].keys)) : Undo(oracle)
    \/ \E search_key \in Keys, cached \in CachedTransitions, oracle \in Oracles(2) :
         \E choice \in Choices(cached) : ExecutarTransicao(search_key, cached, choice, oracle)
    \/ \E keys_pend \in KeyLists, keys_sched \in KeyLists :
         \E oracle \in Oracles(4 * Len(keys_pend) + 2 * Len(keys_sched)) :
            FluxoRapido(keys_pend, keys_sched, oracle)
    \/ \E sel \in KeyLists, cached \in CachedTransitions :
         \E choice \in Choices(cached), oracle \in Oracles(1 + Len(sel)) :
            Aplicar(sel, cached, choice, oracle)

\* one session of the dashboard
SpecDash == InitDash /\ [][NextDash]_vars

\* "Sair", line 344: the authenticator's logout button clears the
\* authentication status; no statement of the dashboard runs on the click
Logout ==
    /\ Fresh
    /\ session' = [session EXCEPT !.authentication_status = FALSE]
    /\ UNCHANGED <<remote, history, ui>>
    /\ UNCHANGED gwVars

\* main without an authenticated user, lines 940-949: the client is popped from
\* the session and the login form shown; `ok` says whether the user logged in
LoginPage(ok) ==
    /\ pc = "idle"
    /\ ~session.authentication_status
    /\ session' = [authentication_status |-> ok, jira_client |-> FALSE]
    /\ UNCHANGED <<remote, history, ui>>
    /\ UNCHANGED gwVars

\* the first run of render_dashboard after a login, lines 215-228: the session
\* has a history already, so it is kept; the client is made anew from the
\* same secrets
RenderDashboard ==
    /\ pc = "idle"
    /\ session.authentication_status
    /\ ~session.jira_client
    /\ session' = [session EXCEPT !.jira_client = TRUE]
    /\ history' = history
    /\ client' = client
    /\ recorder' = NoDebug
    /\ httpCalls' = 0
    /\ UNCHANGED <<remote, ui>>
    /\ UNCHANGED <<pc, call, loc, reqLog, respLog, ret>>

NextSession ==
    \/ NextDash
    \/ Logout
    \/ \E ok \in BOOLEAN : LoginPage(ok)
    \/ RenderDashboard

\* one browser session of the dashboard, with logouts and logins
SpecSession == InitDash /\ [][NextSession]_vars

(* ------------------- properties of the paginated search --------------- *)

\* the search has come to an end (it returned or raised) after at least one request
SearchEnded ==
    /\ call.op = "buscar_chamados_enhanced"
    /\ pc \in {"returned", "raised"}
    /\ respLog # <<>>

\* a reply is a page: status 200, a JSON object, `issues` a list or missing
IsPage(r) ==
    /\ r.kind = "http"
    /\ r.status_code = 200
    /\ r.json # None
    /\ r.json[1].t = "object"
    /\ (r.json[1].issues = None \/ r.json[1].issues[1].t = "list")

\* the batch of a page
PageIssues(r) == IF r.json[1].issues = None THEN <<>> ELSE r.json[1].issues[1].v

\* a page carries a cursor: a nextPageToken that is a non-empty string
PageHasCursor(r) ==
    /\ r.json[1].nextPageToken # None
    /\ r.json[1].nextPageToken[1].t = "str"
    /\ r.json[1].nextPageToken[1].v # <<>>

PageCursor(r) == r.json[1].nextPageToken[1].v

RECURSIVE ConcatPages(_)
\* the batches of a sequence of pages, one after the other
ConcatPages(rs) == IF rs = <<>> THEN <<>> ELSE PageIssues(Head(rs)) \o ConcatPages(Tail(rs))

\* the JSON body of a request as sent (json= in direct mode, data=dumps in EX mode)
ReqBody(q) == IF q.json # None THEN q.json[1] ELSE q.data[1].dumps

\* a reply is a failure: a transport error or a status other than 200
IsFailure(r) == r.kind = "exc" \/ r.status_code # 200

\* C1: when every reply of a finished search is a 200 page, the search returns
\* exactly the batches of all pages, concatenated in page order.
C1_Concatenation ==
    (SearchEnded /\ \A i \in 1..Len(respLog) : IsPage(respLog[i]))
        => /\ ret.kind = "return"
           /\ ret.value[1] = ConcatPages(respLog)

\* C1 witness: three pages were fetched and five issues, repeated ones kept, returned
C1_Witness ==
    /\ SearchEnded
    /\ Len(respLog) = 3
    /\ \A i \in 1..3 : IsPage(respLog[i])
    /\ ret.kind = "return"
    /\ ret.value[1] = <<I1, I2, I2, I2, I1>>

\* C2: when a reply of the search is a failure (non-200 status or transport error),
\* the search returns the empty list, and its debug record carries the failing
\* status (-1 for a transport error) and count 0.
C2_AllOrNothing ==
    \A i \in 1..Len(respLog) :
        (call.op = "buscar_chamados_enhanced" /\ IsFailure(respLog[i]))
            => /\ ret.kind = "return"
               /\ ret.value[1] = <<>>
               /\ ret.value[2].count = 0
               /\ ret.value[2].status =
                      (IF respLog[i].kind = "exc" THEN -1 ELSE respLog[i].status_code)

\* C2 witness: two pages with issues succeeded and the third reply was a 401
C2_Witness ==
    /\ SearchEnded
    /\ Len(respLog) = 3
    /\ respLog[3].kind = "http" /\ respLog[3].status_code = 401
    /\ Len(loc.issues) = 4
    /\ ret.kind = "return"

\* C3: the search sends exactly k POST requests when the k-th reply is the first
\*     page without a cursor; it sends no request after such a page.
C3_ExactlyKRequests ==
    \A k \in 1..Len(respLog) :
        ( /\ call.op = "buscar_chamados_enhanced"
          /\ IsPage(respLog[k]) /\ ~PageHasCursor(respLog[k])
          /\ \A j \in 1..(k - 1) : IsPage(respLog[j]) /\ PageHasCursor(respLog[j]) )
            => /\ Len(reqLog) = k
               /\ httpCalls = k
               /\ \A j \in 1..k : reqLog[j].method = "POST"
               /\ pc = "returned"

\* C3 witness: three pages of two issues each gave six issues in three requests
C3_Witness ==
    /\ SearchEnded
    /\ Len(reqLog) = 3 /\ httpCalls = 3
    /\ \A i \in 1..3 : IsPage(respLog[i]) /\ Len(PageIssues(respLog[i])) = 2
    /\ ret.kind = "return"
    /\ Len(ret.value[1]) = 6

\* C4: the first request carries no nextPageToken; after a 200 page that carries a
\*     cursor the search does not end, and the request that follows carries that
\*     cursor unchanged, with the jql, maxResults and fields of the first request.
C4_CursorThreaded ==
    /\ reqLog # <<>> => ReqBody(reqLog[1]).nextPageToken = None
    /\ \A k \in 1..Len(respLog) :
        ( /\ call.op = "buscar_chamados_enhanced"
          /\ \A j \in 1..k : IsPage(respLog[j]) /\ PageHasCursor(respLog[j]) )
            => /\ Len(reqLog) = k => pc = "search"
               /\ Len(reqLog) > k =>
                    /\ ReqBody(reqLog[k + 1]).nextPageToken = Some(PageCursor(respLog[k]))
                    /\ ReqBody(reqLog[k + 1]).jql = ReqBody(reqLog[1]).jql
                    /\ ReqBody(reqLog[k + 1]).maxResults = ReqBody(reqLog[1]).maxResults
                    /\ ReqBody(reqLog[k + 1]).fields = ReqBody(reqLog[1]).fields
                    /\ ReqBody(reqLog[1]).jql = call.jql
                    /\ ReqBody(reqLog[1]).maxResults = call.page_size

\* C4 witness: the cursors "A" and then "B" were sent back in the 2nd and 3rd request
C4_Witness ==
    /\ Len(reqLog) = 3
    /\ ReqBody(reqLog[2]).nextPageToken = Some(<<"A">>)
    /\ ReqBody(reqLog[3]).nextPageToken = Some(<<"B">>)
    /\ ReqBody(reqLog[3]).fields = << <<"summary">>, <<"status">> >>

\* C20: the debug record a finished search returns has the request URL, the
\*      parameters of the last request, the status, the issue count and the
\*      method, and on a failure the error payload.
C20_DebugRecordComplete ==
    (call.op = "buscar_chamados_enhanced" /\ pc = "returned")
        => /\ { "url", "params", "status", "count", "method" } \subseteq DOMAIN ret.value[2]
           /\ ret.value[2].status # 200 => "error" \in DOMAIN ret.value[2]

\* C26: when the search returns, the recorder matches the outcome: after a
\*      success status 200, no error and the number of issues of all pages
\*      together; after a failure count 0, the failing status (-1 for a
\*      transport failure) and the error payload; the method is POST in both.
C26_RecorderMatchesOutcome ==
    (call.op = "buscar_chamados_enhanced" /\ pc = "returned")
        => /\ recorder.last_method = Some("POST")
           /\ IF ret.value[2].status = 200
              THEN /\ recorder.last_status = Some(200)
                   /\ recorder.last_error = None
                   /\ recorder.last_count = Some(Len(ConcatPages(respLog)))
                   /\ recorder.last_count = Some(Len(ret.value[1]))
              ELSE /\ recorder.last_count = Some(0)
                   /\ recorder.last_status = Some(ret.value[2].status)
                   /\ recorder.last_error = Some(ret.value[2].error)
                   /\ IsFailure(respLog[Len(respLog)])
                        => recorder.last_status =
                              Some(IF respLog[Len(respLog)].kind = "exc" THEN -1
                                   ELSE respLog[Len(respLog)].status_code)

\* C26 witness: pages of two, two and one issues were fetched and the recorder
\*      holds the count five
C26_Witness ==
    /\ call.op = "buscar_chamados_enhanced"
    /\ pc = "returned"
    /\ Len(respLog) = 3
    /\ IsPage(respLog[3])
    /\ Len(PageIssues(respLog[3])) = 1
    /\ recorder.last_count = Some(5)
    /\ recorder.last_status = Some(200)

\* every reply so far was a page that carries a cursor
OnlyCursors == \A i \in DOMAIN respLog : IsPage(respLog[i]) /\ PageHasCursor(respLog[i])

\* C27: the search is in its loop exactly as long as every reply was a page with
\*      a cursor, repeated cursors included, however many pages that makes; and
\*      a search in its loop goes on to end or to its next request, so it ends
\*      once a reply lacks a cursor, has a status other than 200 or is a
\*      transport failure (MaxPages is where the model stops following it).
C27_EndsOnlyWithoutCursor ==
    /\ []((call.op = "buscar_chamados_enhanced" /\ reqLog # <<>>)
            => (pc = "search" <=> OnlyCursors))
    /\ (pc = "search") ~> (pc \in { "returned", "raised" } \/ Len(reqLog) = MaxPages)

\* C27 witness: the server sent the cursor "A" with every page: after MaxPages
\*      requests the search is still in its loop
C27_Witness ==
    /\ pc = "search"
    /\ Len(reqLog) = MaxPages
    /\ \A i \in DOMAIN respLog : IsPage(respLog[i]) /\ PageHasCursor(respLog[i])
                                   /\ PageCursor(respLog[i]) = <<"A">>
    /\ ReqBody(reqLog[MaxPages]).nextPageToken = Some(<<"A">>)

(* --------------------- properties of the gateway ---------------------- *)

\* the reply to the request sent last by the operation called last
LastReply == respLog[Len(respLog)]

\* C6: a transport failure of the HTTP call is never raised to the caller: the
\*     operation returns a value (stated for all seven operations).
C6_TransportNeverRaised ==
    (respLog # <<>> /\ LastReply.kind = "exc") => ret.kind = "return"

\* the reply hands over a list of transitions
GotTransitions(r) ==
    /\ r.kind = "http"
    /\ r.status_code = 200
    /\ r.json # None
    /\ r.json[1].t = "object"
    /\ r.json[1].transitions # None
    /\ r.json[1].transitions[1].t = "list"

\* C7: get_transitions never raises, and returns the empty list whenever the call
\*     did not obtain a list of transitions (no request, transport error, non-200
\*     status, unusable body).
C7_TransitionsNeverRaise ==
    call.op = "get_transitions"
        => /\ ret.kind = "return"
           /\ (respLog = <<>> \/ ~GotTransitions(LastReply)) => ret.value = JList(<<>>)

\* EX mode is selected and no cloud id is configured (None or "")
Misconfigured ==
    /\ client.use_ex_api
    /\ (client.cloud_id = None \/ client.cloud_id = Some(<<>>))

\* C8: in EX mode without a cloud id no HTTP request is ever made, and every
\*     operation that addresses the remote system raises ValueError.
C8_ConfigErrorBeforeHttp ==
    Misconfigured
        => /\ httpCalls = 0
           /\ reqLog = <<>>
           /\ call.op # "none" => ret = Raise("ValueError")

\* C8 witness: with cloud_id "" a transition was asked for and the call raised
C8_Witness ==
    /\ Misconfigured
    /\ client.cloud_id = Some(<<>>)
    /\ call.op = "transicionar_status"
    /\ pc = "raised"
    /\ httpCalls = 0

\* C21: after every operation that sent a request, the recorder describes the
\*      request sent last: its URL and its method.
C21_RecorderFollowsEveryCall ==
    (pc \in {"returned", "raised"} /\ reqLog # <<>>)
        => /\ recorder.last_url = Some(reqLog[Len(reqLog)].url)
           /\ recorder.last_method = Some(reqLog[Len(reqLog)].method)

\* the paths the operations address, relative to the base
RelativePaths ==
    { <<"/myself">>, <<"/jql/parse">>, <<"/search/approximate-count">>, <<"/search/jql">> }
    \cup { <<"/issue", "/", k>> : k \in Keys }
    \cup { <<"/issue", "/", k, "/transitions">> : k \in Keys }

\* C22: every request URL is a relative path behind {site}/rest/api/3 in direct
\*      mode and behind https://api.atlassian.com/ex/jira/{cloud id}/rest/api/3
\*      in routed mode; a routed request carries the header
\*      'Authorization: Basic base64(email:token)' and no client-managed auth, a
\*      direct request client-managed basic auth and no Authorization header.
C22_AddressingAndAuth ==
    \A i \in DOMAIN reqLog :
        LET q == reqLog[i]
            prefix == IF client.use_ex_api
                      THEN <<"https://api.atlassian.com/ex/jira", "/">> \o client.cloud_id[1]
                              \o <<"/rest/api/3">>
                      ELSE client.jira_url \o <<"/rest/api/3">>
        IN  /\ \E path \in RelativePaths : q.url = prefix \o path
            /\ client.use_ex_api
                  => /\ q.auth = None
                     /\ q.headers.Authorization
                           = Some(<<"Basic ", [b64 |-> client.email \o <<":">> \o client.api_token]>>)
            /\ ~client.use_ex_api
                  => /\ q.auth = Some([username |-> client.email, password |-> client.api_token])
                     /\ q.headers.Authorization = None

\* C22 witness: a routed client asked for an issue: the request went to the
\*      routed host with the manual header and without client-managed auth
C22_Witness ==
    /\ client.use_ex_api
    /\ call.op = "get_issue"
    /\ reqLog # <<>>
    /\ reqLog[1].url[1] = "https://api.atlassian.com/ex/jira"
    /\ reqLog[1].headers.Authorization # None
    /\ reqLog[1].auth = None

(* ----------------------- properties of the grouping -------------------- *)

\* the store field of an issue is absent: no `fields`, no customfield_14954 in
\* it, or a null one
StoreAbsent(issue) ==
    \/ issue.fields = None
    \/ /\ issue.fields[1].t = "object"
       /\ \/ issue.fields[1].customfield_14954 = None
          \/ issue.fields[1].customfield_14954[1].t = "null"

RECURSIVE SumLen(_, _)
\* the sum of the lengths of the lists of a mapping, over the keys `ks`
SumLen(m, ks) ==
    IF ks = {} THEN 0
    ELSE LET k == CHOOSE x \in ks : TRUE IN Len(m[k]) + SumLen(m, ks \ {k})

\* C9: for every list of issues agrupar_chamados gives a mapping whose lists have,
\*     together, as many records as the list has issues, and an issue whose store
\*     field is absent is under 'Loja Desconhecida'.
C9_NeverDrops ==
    call.op = "agrupar_chamados"
        => /\ ret.kind = "return"
           /\ SumLen(ret.value, DOMAIN ret.value) = Len(call.issues)
           /\ \A i \in 1..Len(call.issues) :
                StoreAbsent(call.issues[i])
                    => /\ JStr("Loja Desconhecida") \in DOMAIN ret.value
                       /\ \E j \in 1..Len(ret.value[JStr("Loja Desconhecida")]) :
                            ret.value[JStr("Loja Desconhecida")][j].key = call.issues[i].key

\* the store an issue belongs to, read off the issue (defined when the call returns)
StoreOf(issue) ==
    IF issue.fields = None THEN JStr("Loja Desconhecida")
    ELSE IF issue.fields[1].customfield_14954 = None THEN JStr("Loja Desconhecida")
    ELSE IF issue.fields[1].customfield_14954[1].value = None THEN JStr("Loja Desconhecida")
    ELSE issue.fields[1].customfield_14954[1].value[1]

RECURSIVE KeysOfStore(_, _)
\* the keys of the issues of `issues` that belong to store `s`, in input order
KeysOfStore(issues, s) ==
    IF issues = <<>> THEN <<>>
    ELSE (IF StoreOf(Head(issues)) = s THEN <<Head(issues).key>> ELSE <<>>)
         \o KeysOfStore(Tail(issues), s)

\* C10: in the mapping agrupar_chamados returns, the list of each store holds the
\*      records of exactly the input issues of that store, in input order, and
\*      every input issue's store is a key: each issue is under exactly one key.
C10_OneStoreInOrder ==
    (call.op = "agrupar_chamados" /\ ret.kind = "return")
        => /\ DOMAIN ret.value = { StoreOf(call.issues[i]) : i \in 1..Len(call.issues) }
           /\ \A s \in DOMAIN ret.value :
                [j \in 1..Len(ret.value[s]) |-> ret.value[s][j].key] = KeysOfStore(call.issues, s)

\* C10 witness: FSA-1 (L1), FSA-3 (L2), FSA-2 (L1) were grouped: L1 holds FSA-1
\*      then FSA-2
C10_Witness ==
    /\ call.op = "agrupar_chamados"
    /\ ret.kind = "return"
    /\ Len(call.issues) = 3
    /\ JStr("L1") \in DOMAIN ret.value
    /\ [j \in 1..Len(ret.value[JStr("L1")]) |-> ret.value[JStr("L1")][j].key]
          = <<Some("FSA-1"), Some("FSA-2")>>
    /\ call.issues[2].key = Some("FSA-3")

\* C11: agrupar_chamados returns a mapping for every list of issues, whatever
\*      fields are missing from an issue or present with a null value.
C11_NeverRaises ==
    call.op = "agrupar_chamados" => ret.kind = "return"

\* the fields of a projected record
RecordFields(rec) ==
    { rec.pdv, rec.ativo, rec.problema, rec.endereco, rec.estado, rec.cep, rec.cidade,
      rec.data_agendada }

\* C12: in every mapping agrupar_chamados returns, every field of every record
\*      holds a value or the placeholder '--', never None.
C12_NoFieldIsNone ==
    (call.op = "agrupar_chamados" /\ ret.kind = "return")
        => \A s \in DOMAIN ret.value : \A j \in 1..Len(ret.value[s]) :
              /\ ret.value[s][j].key # None
              /\ \A v \in RecordFields(ret.value[s][j]) : v.t # "null"

(* ------------------ properties of the duplicate detection ------------- *)

\* the (pdv, ativo) pairs that at least two records of `chamados` have
PairsTwice(chamados) ==
    { <<chamados[i].pdv, chamados[i].ativo>> : i \in
        { i \in DOMAIN chamados : \E j \in DOMAIN chamados :
              /\ j # i
              /\ chamados[j].pdv = chamados[i].pdv
              /\ chamados[j].ativo = chamados[i].ativo } }

\* C13: verificar_duplicidade returns exactly the set of (pdv, ativo) pairs that
\*      occur at least twice in its argument.
C13_ExactlyThePairsTwice ==
    call.op = "verificar_duplicidade"
        => ret = Return(PairsTwice(call.chamados))

\* C13 witness: [(1,A),(1,A),(2,--)] gave {(1,A)}
C13_Witness ==
    /\ call.op = "verificar_duplicidade"
    /\ call.chamados = << [pdv |-> JStr("1"), ativo |-> JStr("A")],
                          [pdv |-> JStr("1"), ativo |-> JStr("A")],
                          [pdv |-> JStr("2"), ativo |-> JStr("--")] >>
    /\ ret = Return({ <<JStr("1"), JStr("A")>> })

\* the identifier is missing: None or the placeholder of agrupar_chamados
Missing(v) == v = JNull \/ v = JStr("--")

\* C14: a pair built from a missing point-of-sale id and a missing asset is
\*      never among the duplicates verificar_duplicidade reports, and a record
\*      that lacks both is never among the keys of the "Dup" tag.
C14_MissingIdsNotDuplicates ==
    /\ call.op = "verificar_duplicidade"
          => \A p \in ret.value : ~(Missing(p[1]) /\ Missing(p[2]))
    /\ (call.op = "dup_tag" /\ ret.kind = "return")
          => \A i \in DOMAIN ret.value.dup_keys :
                ~(Missing(ret.value.dup_keys[i].pdv) /\ Missing(ret.value.dup_keys[i].ativo))

(* ---------------------- properties of the dashboard ------------------- *)

\* the keys of the POSTs of a handler run, in the order they were sent
PostKeys(u) == [i \in DOMAIN u.posts |-> u.posts[i].key]

\* C16: a batch apply attempts exactly one transition for every selected key, in
\*      selection order, whatever happened to the earlier keys, and lists every
\*      key that failed with its status code.
C16_EveryKeyAttempted ==
    (ui.handler = "apply" /\ ui.msg # "warning")
        => /\ PostKeys(ui) = ui.keys
           /\ \A i \in DOMAIN ui.posts :
                 ui.posts[i].status # Some(204)
                    => /\ ui.posts[i].status # None
                       /\ \E e \in DOMAIN ui.errors :
                             ui.errors[e] = [key |-> ui.posts[i].key,
                                             status |-> ui.posts[i].status[1]]

\* the remote system offers transition `id` for an issue in status `status`
Offers(status, id) == \E j \in DOMAIN Workflow(status) : Workflow(status)[j].id = id

\* C17: in a batch apply the transition id posted for a key is one of the
\*      transitions the remote system offers for that key at that moment.
C17_OwnTransitionList ==
    [][(ui = NoUi /\ ui'.handler = "apply")
          => \A i \in DOMAIN ui'.posts :
                Offers(remote[ui'.posts[i].key], ui'.posts[i].id)]_vars

\* C18: the 'from' of an entry that a handler appends is the status every key
\*      of the entry had before the handler ran.
C18_FromIsPriorStatus ==
    [][(ui = NoUi /\ ui'.appended)
          => LET e == history'[Len(history')]
             IN  \A i \in DOMAIN e.keys : remote[e.keys[i]] = e.from]_vars

\* every POST of the run was answered 204 and every key of the run has a POST
\* that the handler counted as moved
Succeeded(u) ==
    /\ u.posts # <<>>
    /\ \A i \in DOMAIN u.posts : u.posts[i].status = Some(204)
    /\ \A k \in DOMAIN u.keys :
          \E i \in DOMAIN u.posts : u.posts[i].key = u.keys[k] /\ u.posts[i].counted

\* C19: a handler whose transitions all succeeded appends one entry for its keys
\*      and no handler changes an earlier entry; undo removes the entry appended
\*      last and nothing else; undo on an empty history sends no transition and
\*      leaves the history empty.
C19_SingleLevelLifo ==
    [][ui = NoUi
          => /\ ui'.handler = "undo"
                  => IF history = <<>>
                     THEN history' = <<>> /\ ui'.posts = <<>> /\ remote' = remote
                     ELSE /\ Len(history') = Len(history) - 1
                          /\ \A i \in DOMAIN history' : history'[i] = history[i]
             /\ ui'.handler \in { "single", "apply", "quick" }
                  => /\ \A i \in DOMAIN history : history'[i] = history[i]
                     /\ Len(history') \in { Len(history), Len(history) + 1 }
                     /\ Succeeded(ui')
                          => /\ Len(history') = Len(history) + 1
                             /\ history'[Len(history')].keys = ui'.keys]_vars

\* C19 witness: two entries were recorded and undo has taken the second: the
\*      first is left and the second's key got its POST
C19_Witness ==
    /\ ui.handler = "undo"
    /\ Len(history) = 1
    /\ ui.keys # history[1].keys
    /\ ui.posts # <<>>

\* the POSTs of a handler run that were not answered 204 (or not answered)
FailedPosts(u) == { i \in DOMAIN u.posts : u.posts[i].status # Some(204) }

\* the POSTs of a handler run that were answered 204
MovedPosts(u) == { i \in DOMAIN u.posts : u.posts[i].status = Some(204) }

\* C23: a batch apply or quick flow appends an entry only when no POST of the
\*      batch failed; when one key failed and another moved (204), the history
\*      is left as it was: no entry holds the keys that moved.
C23_NoEntryForPartialBatch ==
    [][(ui = NoUi /\ ui'.handler \in { "apply", "quick" })
          => /\ history' # history => FailedPosts(ui') = {}
             /\ (FailedPosts(ui') # {} /\ MovedPosts(ui') # {}) => history' = history]_vars

\* C23 witness: of a batch of two the first key moved and the second got a 400;
\*      nothing was recorded
C23_Witness ==
    /\ ui.handler = "apply"
    /\ Len(ui.posts) = 2
    /\ ui.posts[1].status = Some(204)
    /\ ui.posts[2].status = Some(400)
    /\ ui.msg = "error"
    /\ remote[ui.posts[1].key] # remote[ui.posts[2].key]
    /\ history = <<>>

\* C24: the quick flow records an entry only when every key of the entry was
\*      moved to TEC-CAMPO by a POST answered 204, so that the counter equals
\*      the number of keys; a key without a matching transition is not recorded.
C24_RecordedOnlyIfAllMoved ==
    (ui.handler = "quick" /\ ui.appended)
        => /\ ui.count = Len(ui.keys)
           /\ \A k \in DOMAIN ui.keys :
                 \E i \in DOMAIN ui.posts : ui.posts[i].key = ui.keys[k] /\ ui.posts[i].counted

\* transition `id` is offered for an issue in status `status` and leads to `from`
\* (moving an issue to the status it is in changes nothing of its status)
LeadsTo(status, id, from) ==
    \E j \in DOMAIN Workflow(status) :
        Workflow(status)[j].id = id /\ Workflow(status)[j].to = Some([name |-> from])

\* C25: undo asks for the transitions of every key of the popped entry, whatever
\*      happened to the keys before it (no inverse found, a POST not answered
\*      204); it posts only a transition that leads to the recorded status,
\*      counts only the POSTs answered 204, and removes the entry however many
\*      keys it reverted.
C25_UndoEachKey ==
    [][(ui = NoUi /\ ui'.handler = "undo" /\ history # <<>>)
          => LET e == history[Len(history)]
             IN  /\ history' = SubSeq(history, 1, Len(history) - 1)
                 /\ ui'.keys = e.keys
                 /\ \A i \in DOMAIN ui'.posts :
                       /\ \E k \in DOMAIN e.keys : e.keys[k] = ui'.posts[i].key
                       /\ LeadsTo(remote[ui'.posts[i].key], ui'.posts[i].id, e.from)
                       /\ \A j \in DOMAIN ui'.posts :
                             ui'.posts[j].key = ui'.posts[i].key => j = i
                 /\ ui'.count = Cardinality(MovedPosts(ui'))
                 /\ ui'.msg # "exception"
                       => ui'.requests = Len(e.keys) + Len(ui'.posts)]_vars

\* C25 witness: undo of an entry of two keys: the POST of the first got a 400,
\*      the second key was reverted all the same, and the entry is gone
C25_Witness ==
    /\ ui.handler = "undo"
    /\ Len(ui.keys) = 2
    /\ Len(ui.posts) = 2
    /\ ui.posts[1].status = Some(400)
    /\ ui.posts[2].status = Some(204)
    /\ ui.count = 1
    /\ history = <<>>

\* the positions of the transitions of `trans` whose target is named `from`
TargetIs(trans, from) ==
    { i \in DOMAIN trans : trans[i].to # None /\ trans[i].to[1].name = from }

\* C15: the lookup used by undo gives the id of a transition whose target status
\*      name is the recorded status, and none when no transition has that target.
C15_InverseLookup ==
    call.op = "rev_id"
        => IF TargetIs(call.trans, call.from) = {}
           THEN ret = Return(None)
           ELSE \E i \in TargetIs(call.trans, call.from) :
                    ret = Return(Some(call.trans[i].id))

\* C15 witness: [{5 -> Agendado}, {6 -> TEC-CAMPO}] and 'Agendado' gave "5"
C15_Witness ==
    /\ call.op = "rev_id"
    /\ call.trans = <<T_AGENDAR, T_TEC_CAMPO>>
    /\ call.from = STATUS_NAME_AGENDADO
    /\ ret = Return(Some("5"))

\* C5: at every call site (single transition, batch apply, quick flow, undo) a
\* POST that was answered is counted as moved or reverted only when its status
\* is exactly 204, and any other status is listed as a failure with its code
C5_SuccessIff204 ==
    \A i \in DOMAIN ui.posts :
        LET p == ui.posts[i]
        IN  p.status # None =>
              /\ (p.counted => p.status = Some(204))
              /\ (p.status # Some(204) =>
                    /\ p.reported
                    /\ \E e \in DOMAIN ui.errors :
                          ui.errors[e] = [key |-> p.key, status |-> p.status[1]])

\* C28: when a user logs in after a logout, nothing of the login before is
\*      left in the session: the client is gone and the history is empty.
C28_LogoutDiscardsSession ==
    [][(~session.authentication_status /\ session'.authentication_status)
          => /\ ~session'.jira_client
             /\ history' = <<>>]_vars

====
